---- MODULE Spec2Model ----
(***************************************************************************)
(* Model of tools/eval-server.py: the instrumentation bundle TEST_HOOKS    *)
(* that the server appends to main.js (test hook surface, game loop        *)
(* supervisor, auto-combat agent for P1) and the handler EvalHandler that  *)
(* serves it.                                                              *)
(*                                                                         *)
(* Specifications.  Spec: supervisor and agent hooks under every fault.    *)
(* AgentSpec: the agent over many matches.  AccessorSpec: the read         *)
(* accessors on pages with objects missing.  HookSpec: the level and       *)
(* lobby hooks.  LobbySpec: the lobby hooks with the frame loop running.   *)
(* HttpSpec: do_GET over a changing submission directory.                  *)
(*                                                                         *)
(* Numbers.  JavaScript numbers are modelled in fixed point.               *)
(*   - angles: Pi units per half turn.  One unit is pi/1048 rad, which is  *)
(*     0.003 rad (the mouse sensitivity of lines 150 and 186) to within    *)
(*     0.1 percent, so mouseDX pixels and angle units coincide;            *)
(*   - positions: PosScale units per map tile;                             *)
(*   - Math.cos / Math.sin: a quarter-wave table scaled by TrigScale;      *)
(*   - dt: milliseconds.                                                   *)
(***************************************************************************)
EXTENDS Integers, Sequences, FiniteSets, TLC

\* ---------------------------------------------------------------- bounds
MaxFrames == 3
MaxPending == 2
\* The hostGame/joinGame calls that may be suspended at once.
MaxCalls == 2
\* The levels of the game.
LevelCount == 2
\* The characters of a level introduction.
MaxIntro == 2
\* The bytes of the submission's entry script.
MaxFileLen == 2

\* ------------------------------------------------------- numeric scales
Pi == 1048
TwoPi == 2 * Pi
PosScale == 1000
TrigScale == 10000
MsPerSecond == 1000

\* ------------------------------------------- constants of the agent code
OpenMinY == 6
OpenMinX == 8
OpenMaxX == 24
NavX == 16
NavY == 12
WanderCentre == 16
WanderRadius == 5
MaxMouseDX == 300
StrafeCycle == 80
StrafeLeftEnd == 20
StrafeRightStart == 40
StrafeRightEnd == 60
\* 0.44 rad is 146.8 units: for a whole number of units d, |d| < 0.44 rad
\* exactly when |d| < 147.
FireAngle == 147
FireRange == 20
MoveSpeed == 3

\* ------------------------------------------------------------ nullables
\* A JavaScript reference that may be null/undefined: <<>> or <<value>>.
NULL == <<>>
Some(v) == <<v>>
Val(o) == o[1]

\* ----------------------------------------------------------------- math
Abs(n) == IF n < 0 THEN -n ELSE n
Clamp(lo, hi, n) == IF n < lo THEN lo ELSE IF n > hi THEN hi ELSE n

\* JavaScript's % : the remainder has the sign of the dividend.
JsMod(a, m) == IF a >= 0 THEN a % m ELSE -((-a) % m)

\* cos(k * pi / 1048) * TrigScale for k = 0 .. Pi/2, at index k + 1.
CosQ ==
  <<
     10000, 10000, 10000, 10000, 9999, 9999, 9998, 9998, 9997, 9996, 9996, 9995, 9994, 9992, 9991,
     9990, 9988, 9987, 9985, 9984, 9982, 9980, 9978, 9976, 9974, 9972, 9970, 9967, 9965, 9962,
     9960, 9957, 9954, 9951, 9948, 9945, 9942, 9939, 9935, 9932, 9928, 9925, 9921, 9917, 9913,
     9909, 9905, 9901, 9897, 9892, 9888, 9883, 9879, 9874, 9869, 9864, 9859, 9854, 9849, 9844,
     9839, 9833, 9828, 9822, 9817, 9811, 9805, 9799, 9793, 9787, 9781, 9774, 9768, 9762, 9755,
     9748, 9742, 9735, 9728, 9721, 9714, 9707, 9699, 9692, 9685, 9677, 9670, 9662, 9654, 9646,
     9638, 9630, 9622, 9614, 9606, 9597, 9589, 9580, 9572, 9563, 9554, 9545, 9536, 9527, 9518,
     9509, 9499, 9490, 9480, 9471, 9461, 9451, 9442, 9432, 9422, 9412, 9401, 9391, 9381, 9370,
     9360, 9349, 9339, 9328, 9317, 9306, 9295, 9284, 9273, 9262, 9250, 9239, 9227, 9216, 9204,
     9192, 9180, 9168, 9156, 9144, 9132, 9120, 9108, 9095, 9083, 9070, 9057, 9045, 9032, 9019,
     9006, 8993, 8980, 8967, 8953, 8940, 8926, 8913, 8899, 8885, 8872, 8858, 8844, 8830, 8816,
     8801, 8787, 8773, 8758, 8744, 8729, 8715, 8700, 8685, 8670, 8655, 8640, 8625, 8610, 8595,
     8579, 8564, 8548, 8533, 8517, 8501, 8485, 8470, 8454, 8437, 8421, 8405, 8389, 8373, 8356,
     8340, 8323, 8306, 8290, 8273, 8256, 8239, 8222, 8205, 8188, 8170, 8153, 8136, 8118, 8101,
     8083, 8065, 8048, 8030, 8012, 7994, 7976, 7958, 7940, 7921, 7903, 7885, 7866, 7848, 7829,
     7810, 7792, 7773, 7754, 7735, 7716, 7697, 7678, 7658, 7639, 7620, 7600, 7581, 7561, 7541,
     7522, 7502, 7482, 7462, 7442, 7422, 7402, 7382, 7362, 7341, 7321, 7300, 7280, 7259, 7239,
     7218, 7197, 7176, 7155, 7134, 7113, 7092, 7071, 7050, 7029, 7007, 6986, 6964, 6943, 6921,
     6899, 6878, 6856, 6834, 6812, 6790, 6768, 6746, 6724, 6702, 6679, 6657, 6635, 6612, 6590,
     6567, 6544, 6522, 6499, 6476, 6453, 6430, 6407, 6384, 6361, 6338, 6315, 6292, 6268, 6245,
     6221, 6198, 6174, 6151, 6127, 6103, 6080, 6056, 6032, 6008, 5984, 5960, 5936, 5912, 5888,
     5863, 5839, 5815, 5790, 5766, 5741, 5717, 5692, 5667, 5643, 5618, 5593, 5568, 5543, 5518,
     5493, 5468, 5443, 5418, 5393, 5367, 5342, 5317, 5291, 5266, 5240, 5215, 5189, 5164, 5138,
     5112, 5086, 5060, 5035, 5009, 4983, 4957, 4931, 4905, 4878, 4852, 4826, 4800, 4773, 4747,
     4721, 4694, 4668, 4641, 4615, 4588, 4561, 4535, 4508, 4481, 4454, 4427, 4400, 4374, 4347,
     4320, 4292, 4265, 4238, 4211, 4184, 4157, 4129, 4102, 4075, 4047, 4020, 3992, 3965, 3937,
     3910, 3882, 3855, 3827, 3799, 3771, 3744, 3716, 3688, 3660, 3632, 3604, 3576, 3548, 3520,
     3492, 3464, 3436, 3408, 3379, 3351, 3323, 3295, 3266, 3238, 3210, 3181, 3153, 3124, 3096,
     3067, 3039, 3010, 2982, 2953, 2924, 2896, 2867, 2838, 2809, 2781, 2752, 2723, 2694, 2665,
     2636, 2607, 2579, 2550, 2521, 2492, 2463, 2433, 2404, 2375, 2346, 2317, 2288, 2259, 2229,
     2200, 2171, 2142, 2112, 2083, 2054, 2024, 1995, 1966, 1936, 1907, 1877, 1848, 1818, 1789,
     1759, 1730, 1700, 1671, 1641, 1612, 1582, 1553, 1523, 1493, 1464, 1434, 1404, 1375, 1345,
     1315, 1285, 1256, 1226, 1196, 1166, 1137, 1107, 1077, 1047, 1017, 988, 958, 928, 898,
     868, 838, 808, 779, 749, 719, 689, 659, 629, 599, 569, 539, 509, 479, 450,
     420, 390, 360, 330, 300, 270, 240, 210, 180, 150, 120, 90, 60, 30, 0
  >>

\* Math.cos and Math.sin of an angle in units, scaled by TrigScale.
Cos(a) ==
  LET k == a % TwoPi
  IN  IF k <= Pi \div 2 THEN CosQ[k + 1]
      ELSE IF k <= Pi THEN -CosQ[(Pi - k) + 1]
      ELSE IF k <= Pi + Pi \div 2 THEN -CosQ[(k - Pi) + 1]
      ELSE CosQ[(TwoPi - k) + 1]

Sin(a) == Cos(a - Pi \div 2)

\* The largest k in lo..hi with tan(k) <= ay/ax, for ax, ay >= 0 (bisection;
\* the test is monotone in k and holds at lo).
RECURSIVE AtanQ(_, _, _, _)
AtanQ(ay, ax, lo, hi) ==
  IF lo = hi THEN lo
  ELSE LET mid == (lo + hi + 1) \div 2
       IN  IF Sin(mid) * ax <= Cos(mid) * ay
           THEN AtanQ(ay, ax, mid, hi)
           ELSE AtanQ(ay, ax, lo, mid - 1)

\* Math.atan2(dy, dx) in units, in -Pi .. Pi.
Atan2(dy, dx) ==
  IF dx = 0 /\ dy = 0 THEN 0
  ELSE LET q == AtanQ(Abs(dy), Abs(dx), 0, Pi \div 2)
       IN  IF dx >= 0 /\ dy >= 0 THEN q
           ELSE IF dx < 0 /\ dy >= 0 THEN Pi - q
           ELSE IF dx < 0 THEN q - Pi
           ELSE -q

\* ------------------------------------------------------------- the state
VARIABLES
  gameState,     \* the game's top-level state (a member of GameState)
  player,        \* the local player, or NULL: [alive, health, pos, angle]
  mpMap,         \* whether the multiplayer map is loaded (truthiness of mpMap)
  mpState,       \* NULL or [remotePlayer |-> NULL or [alive, pos]]
  autoP1Active,  \* window._autoP1Active
  autoP1Tick,    \* window._autoP1Tick
  loopError,     \* window._loopError: NULL (unset) or the recorded text
  rafPending,    \* frame callbacks requestAnimationFrame has queued
  frameNo,       \* frames executed so far (the scheduler's timestamp)
  thrown,        \* what _origGameLoop threw in the last frame, or NoThrow
  frameResult,   \* how the last gameLoop call ended: none, returned, escaped
  mpPath,        \* the path the last frame's updateMultiplayer took
  navTarget,     \* the target the agent computed in the last frame, or NULL
  sent,          \* the messages the last operation passed to networkManager.send
  currentLevelIndex,  \* the game's current level
  introCharIndex,     \* progress of the level introduction text
  lobbyScreen,   \* the lobby UI, or NULL: [state, roomCode]
  input,         \* the input manager, or NULL: [pointerLocked]
  canvas,        \* the element 'game-canvas', or NULL: its image data
  connected,     \* networkManager.isConnected()
  handlersSet,   \* setupNetworkHandlers() has run
  pending,       \* hostGame/joinGame calls suspended at await connect()
  hookResult,    \* how the last hook call ended, and what it returned
  disk,          \* the submission's src/main.js on disk, or NULL: its bytes
  response       \* what the server wrote for the last GET

\* The state of the five hooks and the supervisor that the agent touches.
hookVars ==
  << currentLevelIndex, introCharIndex, lobbyScreen, input, canvas, connected,
     handlersSet, pending, hookResult, disk, response >>

vars ==
  << gameState, player, mpMap, mpState, autoP1Active, autoP1Tick, loopError,
     rafPending, frameNo, thrown, frameResult, mpPath, navTarget, sent,
     hookVars >>

GameState == {"LEVEL_INTRO", "PLAYING", "LOBBY", "MP_PLAYING"}

\* ------------------------------------------------------- thrown values
NoThrow == [kind |-> "none", message |-> "", stack |-> ""]
ErrorValue(m, s) == [kind |-> "Error", message |-> m, stack |-> s]
\* What the frame's update/render pass may throw: Error objects, a string,
\* null and undefined.
Faults ==
  { ErrorValue("state.label is undefined", "at _renderObjectiveCounter"),
    ErrorValue("boom", "at render"),
    [kind |-> "string", message |-> "", stack |-> ""],
    [kind |-> "null", message |-> "", stack |-> ""],
    [kind |-> "undefined", message |-> "", stack |-> ""] }
\* The TypeError of a property read on null or undefined.
TypeErrorValue == ErrorValue("Cannot read properties of null", "at updateMultiplayer")

\* e.message and e.stack as string concatenation sees them: a string
\* primitive has neither property, and undefined concatenates as "undefined".
MessageText(e) == IF e.kind = "Error" THEN e.message ELSE "undefined"
StackText(e) == IF e.kind = "Error" THEN e.stack ELSE "undefined"

\* --------------------------------------------------- the agent's steps
\* Mutant of Normalize: one remainder only, the shift by 3pi and -pi dropped.
NormalizeOneMod(a) == JsMod(a, TwoPi)

\* Line 122: ((angle % 2pi) + 3pi) % 2pi - pi.
Normalize(a) == JsMod(JsMod(a, TwoPi) + 3 * Pi, TwoPi) - Pi

\* Mutant of InOpenArea: the rectangle's edges counted as open.
InOpenAreaInclusive(x, y) ==
  /\ y >= OpenMinY * PosScale
  /\ x >= OpenMinX * PosScale
  /\ x <= OpenMaxX * PosScale

\* Line 126: myY > 6 && myX > 8 && myX < 24.
InOpenArea(x, y) ==
  /\ y > OpenMinY * PosScale
  /\ x > OpenMinX * PosScale
  /\ x < OpenMaxX * PosScale

\* Lines 137-138: 16 + sin(tick * 0.01) * 5, 16 + cos(tick * 0.01) * 5.
\* tick * 0.01 rad is tick * 10 / 3 units.
WanderPoint(tick) ==
  LET a == (tick * 10) \div 3
  IN  [x |-> WanderCentre * PosScale + (Sin(a) * WanderRadius * PosScale) \div TrigScale,
       y |-> WanderCentre * PosScale + (Cos(a) * WanderRadius * PosScale) \div TrigScale]

\* Lines 129-139: the navigation target.
NavTarget(x, y, rp, tick) ==
  IF ~InOpenArea(x, y) THEN [x |-> NavX * PosScale, y |-> NavY * PosScale]
  ELSE IF rp # NULL /\ Val(rp).alive /\ Val(rp).pos # NULL THEN Val(Val(rp).pos)
  ELSE WanderPoint(tick)

\* Lines 147-148 and 162-163: the two while loops.
RECURSIVE WrapDiff(_)
WrapDiff(d) ==
  IF d > Pi THEN WrapDiff(d - TwoPi)
  ELSE IF d < -Pi THEN WrapDiff(d + TwoPi)
  ELSE d

\* Lines 145-150: mouseDX = max(-300, min(300, angleDiff / 0.003)).
MouseDX(tx, ty, x, y, angle) ==
  LET targetAngle == Atan2(ty - y, tx - x)
      angleDiff == WrapDiff(targetAngle - angle)
  IN  Clamp(-MaxMouseDX, MaxMouseDX, angleDiff)

\* Lines 152-155: the keys pressed at this tick.
Keys(tick) ==
  LET strafePhase == tick % StrafeCycle
  IN  IF strafePhase < StrafeLeftEnd THEN <<"KeyW", "KeyA">>
      ELSE IF strafePhase >= StrafeRightStart /\ strafePhase < StrafeRightEnd
           THEN <<"KeyW", "KeyD">>
      ELSE <<"KeyW">>

\* Mutant of FireGate: the alive flag is not looked at.
FireGateIgnoresAlive(x, y, angle, rp) ==
  IF rp = NULL THEN [threw |-> FALSE, fire |-> FALSE]
  ELSE IF Val(rp).pos = NULL THEN [threw |-> TRUE, fire |-> FALSE]
  ELSE LET rx == Val(Val(rp).pos).x
           ry == Val(Val(rp).pos).y
           rpDist2 == (rx - x) * (rx - x) + (ry - y) * (ry - y)
           rpDiff == WrapDiff(Atan2(ry - y, rx - x) - angle)
       IN  [threw |-> FALSE,
            fire |-> Abs(rpDiff) < FireAngle
                     /\ rpDist2 < (FireRange * PosScale) * (FireRange * PosScale)]

\* Lines 157-165: the fire gate.  rp.pos.x throws when rp.pos is null.
FireGate(x, y, angle, rp) ==
  IF rp = NULL \/ ~Val(rp).alive THEN [threw |-> FALSE, fire |-> FALSE]
  ELSE IF Val(rp).pos = NULL THEN [threw |-> TRUE, fire |-> FALSE]
  ELSE LET rx == Val(Val(rp).pos).x
           ry == Val(Val(rp).pos).y
           rpDist2 == (rx - x) * (rx - x) + (ry - y) * (ry - y)
           rpAngle == Atan2(ry - y, rx - x)
           rpDiff == WrapDiff(rpAngle - angle)
       IN  [threw |-> FALSE,
            fire |-> Abs(rpDiff) < FireAngle
                     /\ rpDist2 < (FireRange * PosScale) * (FireRange * PosScale)]

\* Mutant of Predict: the prediction is applied without a map too.
PredictIgnoresMap(p, keys, mouseDX, dt, map) ==
  [p EXCEPT !.pos = [x |-> p.pos.x + (Cos(p.angle) * MoveSpeed * dt * PosScale)
                                       \div (TrigScale * MsPerSecond),
                     y |-> p.pos.y + (Sin(p.angle) * MoveSpeed * dt * PosScale)
                                       \div (TrigScale * MsPerSecond)],
            !.angle = p.angle + mouseDX]

\* Lines 178-187: local prediction on the player p (angle already normalized).
Predict(p, keys, mouseDX, dt, map) ==
  IF p.alive /\ map
  THEN LET moved ==
             IF \E i \in 1..Len(keys) : keys[i] = "KeyW"
             THEN [x |-> p.pos.x + (Cos(p.angle) * MoveSpeed * dt * PosScale)
                                     \div (TrigScale * MsPerSecond),
                   y |-> p.pos.y + (Sin(p.angle) * MoveSpeed * dt * PosScale)
                                     \div (TrigScale * MsPerSecond)]
             ELSE p.pos
       IN  [p EXCEPT !.pos = moved, !.angle = p.angle + mouseDX]
  ELSE p

\* Mutant of AgentGuard: the active flag is not looked at.
AgentGuardIgnoresActive ==
  /\ gameState = "MP_PLAYING"
  /\ player # NULL
  /\ Val(player).alive

\* Mutant of AgentGuard: the game state is not looked at.
AgentGuardIgnoresState ==
  /\ autoP1Active
  /\ player # NULL
  /\ Val(player).alive

\* Line 109: the guard of the agent path.
AgentGuard ==
  /\ autoP1Active
  /\ gameState = "MP_PLAYING"
  /\ player # NULL
  /\ Val(player).alive

\* Lines 110-200: the agent path of one updateMultiplayer(dt) call, as the
\* values it leaves: the tick, the player, the target, the message sent and
\* whether it threw.  (weaponSystem.update, mpState.update, killFeed.update,
\* scoreboard.setTiers and syncCamera are the game's own.)
AgentPath(dt) ==
  LET tick == autoP1Tick + 1
      p0 == Val(player)
  IN  IF mpState = NULL                             \* line 113
      THEN [path |-> "agent", threw |-> TRUE, tick |-> tick, player |-> player,
            target |-> NULL, sent |-> <<>>]
      ELSE
      LET rp == Val(mpState).remotePlayer
          myX == p0.pos.x
          myY == p0.pos.y
          p1 == [p0 EXCEPT !.angle = Normalize(p0.angle)]
          target == NavTarget(myX, myY, rp, tick)
          mouseDX == MouseDX(target.x, target.y, myX, myY, p1.angle)
          keys == Keys(tick)
          gate == FireGate(myX, myY, p1.angle, rp)
      IN  IF gate.threw
          THEN [path |-> "agent", threw |-> TRUE, tick |-> tick, player |-> Some(p1),
                target |-> Some(target), sent |-> <<>>]
          ELSE [path |-> "agent", threw |-> FALSE, tick |-> tick,
                player |-> Some(Predict(p1, keys, mouseDX, dt, mpMap)),
                target |-> Some(target),
                sent |-> << [type |-> "input", keys |-> keys, mouseDX |-> mouseDX,
                             mouseDY |-> 0, fire |-> gate.fire, dt |-> dt] >>]

\* Lines 108-205: the patched updateMultiplayer(dt).  The original
\* (_origUpdateMP, line 204) is the game's own normal input path.
UpdateMultiplayer(dt) ==
  IF AgentGuard THEN AgentPath(dt)
  ELSE [path |-> "orig", threw |-> FALSE, tick |-> autoP1Tick, player |-> player,
        target |-> NULL, sent |-> <<>>]

\* A frame whose original loop does not reach updateMultiplayer.
NoUpdate ==
  [path |-> "none", threw |-> FALSE, tick |-> autoP1Tick, player |-> player,
   target |-> NULL, sent |-> <<>>]

\* ------------------------------------------------------- the supervisor
\* Mutant of CatchHandler: a thrown null or undefined empties the slot.
CatchHandlerClearsOnNull(e, blitFails) ==
  IF e.kind \in {"null", "undefined"}
  THEN [escaped |-> TRUE, loopError |-> NULL, reschedule |-> FALSE]
  ELSE [escaped |-> FALSE,
        loopError |-> Some(<<MessageText(e), " | ", StackText(e)>>),
        reschedule |-> TRUE]

\* Lines 83-95: the catch handler on the thrown value e.  Reading e.message
\* of null or undefined throws inside the handler, before the slot is
\* written and before line 94; the blit is guarded (lines 87-92).
CatchHandler(e, blitFails) ==
  IF e.kind \in {"null", "undefined"}
  THEN [escaped |-> TRUE, loopError |-> loopError, reschedule |-> FALSE]
  ELSE [escaped |-> FALSE,
        loopError |-> Some(<<MessageText(e), " | ", StackText(e)>>),
        reschedule |-> TRUE]

\* Lines 80-96: one call of the wrapped gameLoop by the frame scheduler.
\* The original loop may call updateMultiplayer(dt), may then throw `fault`
\* in its update/render pass, and otherwise ends by scheduling the next
\* frame itself.  When it throws, the handler's blit may fail or not.
GameLoop(dt, fault, callsMp) ==
  /\ rafPending > 0
  /\ frameNo < MaxFrames
  /\ LET u == IF callsMp THEN UpdateMultiplayer(dt) ELSE NoUpdate
         e == IF u.threw THEN TypeErrorValue ELSE fault
     IN  /\ autoP1Tick' = u.tick
         /\ player' = u.player
         /\ navTarget' = u.target
         /\ sent' = u.sent
         /\ mpPath' = u.path
         /\ thrown' = e
         /\ IF e = NoThrow
            THEN /\ frameResult' = "returned"
                 /\ loopError' = loopError
                 /\ rafPending' = rafPending
            ELSE \E blitFails \in BOOLEAN :
                   LET h == CatchHandler(e, blitFails)
                   IN  /\ frameResult' = IF h.escaped THEN "escaped" ELSE "returned"
                       /\ loopError' = h.loopError
                       /\ rafPending' = (rafPending - 1)
                                          + (IF h.reschedule THEN 1 ELSE 0)
  /\ frameNo' = frameNo + 1
  /\ UNCHANGED << gameState, mpMap, mpState, autoP1Active >>
  /\ UNCHANGED hookVars

\* ------------------------------------------------------------ the hooks
\* Lines 207-211: what _startAutoP1 leaves of the agent state a.
StartEffect(a) == [active |-> TRUE, tick |-> 0]

\* Mutant of StopEffect: the flag is toggled instead of cleared.
StopEffectToggles(a) == [a EXCEPT !.active = ~@]

\* Lines 213-216: what _stopAutoP1 leaves of the agent state a.
StopEffect(a) == [a EXCEPT !.active = FALSE]

AgentState == [active |-> autoP1Active, tick |-> autoP1Tick]

StartAutoP1 ==
  /\ autoP1Active' = StartEffect(AgentState).active
  /\ autoP1Tick' = StartEffect(AgentState).tick
  /\ sent' = <<>>
  /\ UNCHANGED << gameState, player, mpMap, mpState, loopError, rafPending,
                  frameNo, thrown, frameResult, mpPath, navTarget >>
  /\ UNCHANGED hookVars

StopAutoP1 ==
  /\ autoP1Active' = StopEffect(AgentState).active
  /\ autoP1Tick' = StopEffect(AgentState).tick
  /\ sent' = <<>>
  /\ UNCHANGED << gameState, player, mpMap, mpState, loopError, rafPending,
                  frameNo, thrown, frameResult, mpPath, navTarget >>
  /\ UNCHANGED hookVars

\* Lines 27-34: getState(), a pure read.  window._loopError || null: the
\* recorded text always holds " | " and is never the empty string.
GetState ==
  [gameState |-> gameState,
   currentLevelIndex |-> currentLevelIndex,
   playerHP |-> IF player # NULL THEN Some(Val(player).health) ELSE NULL,
   hasPlayer |-> player # NULL,
   hasMpMap |-> mpMap,
   loopError |-> IF loopError # NULL THEN loopError ELSE NULL]

\* Line 26.
SkipToPlaying ==
  /\ gameState' = "PLAYING"
  /\ sent' = <<>>
  /\ UNCHANGED << player, mpMap, mpState, autoP1Active, autoP1Tick, loopError,
                  rafPending, frameNo, thrown, frameResult, mpPath, navTarget >>
  /\ UNCHANGED hookVars

\* Line 37.
GoToLobby ==
  /\ gameState' = "LOBBY"
  /\ sent' = <<>>
  /\ UNCHANGED << player, mpMap, mpState, autoP1Active, autoP1Tick, loopError,
                  rafPending, frameNo, thrown, frameResult, mpPath, navTarget >>
  /\ UNCHANGED hookVars

\* Line 56.
RestartLoop ==
  /\ rafPending < MaxPending
  /\ rafPending' = rafPending + 1
  /\ sent' = <<>>
  /\ UNCHANGED << gameState, player, mpMap, mpState, autoP1Active, autoP1Tick,
                  loopError, frameNo, thrown, frameResult, mpPath, navTarget >>
  /\ UNCHANGED hookVars

\* The page state that neither the level hook nor the lobby hooks touch.
loopVars ==
  << player, mpMap, mpState, autoP1Active, autoP1Tick, loopError, rafPending,
     frameNo, thrown, frameResult, mpPath, navTarget >>

\* ------------------------------------------------------- the level hook
\* The levels the game has are 0 .. LevelCount - 1.
ValidLevels == 0 .. (LevelCount - 1)
\* The indices the test runner passes: every level, and one off each end.
LevelArgs == (-1) .. LevelCount

\* The game's own loadLevel(idx), called at line 25: it validates idx itself
\* and leaves the game as it is when idx is no level.
GameLoadLevel(idx, cur) == IF idx \in ValidLevels THEN idx ELSE cur

Game == [gameState |-> gameState, currentLevelIndex |-> currentLevelIndex,
         introCharIndex |-> introCharIndex]

\* Mutant of LoadLevelEffect: the introduction progress is not reset.
LoadLevelKeepsIntro(idx, g) ==
  [gameState |-> "LEVEL_INTRO",
   currentLevelIndex |-> GameLoadLevel(idx, g.currentLevelIndex),
   introCharIndex |-> g.introCharIndex]

\* Line 25: what window._test.loadLevel(idx) leaves of the game g.  The two
\* assignments after the call are unconditional.
LoadLevelEffect(idx, g) ==
  [gameState |-> "LEVEL_INTRO",
   currentLevelIndex |-> GameLoadLevel(idx, g.currentLevelIndex),
   introCharIndex |-> 0]

LoadLevel(idx) ==
  /\ gameState' = LoadLevelEffect(idx, Game).gameState
  /\ currentLevelIndex' = LoadLevelEffect(idx, Game).currentLevelIndex
  /\ introCharIndex' = LoadLevelEffect(idx, Game).introCharIndex
  /\ sent' = <<>>
  /\ hookResult' = [hook |-> "loadLevel", threw |-> FALSE,
                          value |-> Some([idx |-> idx, before |-> Game])]
  /\ UNCHANGED loopVars
  /\ UNCHANGED << lobbyScreen, input, canvas, connected, handlersSet, pending,
                  disk, response >>

\* The game types the level introduction, one character at a time.
IntroTyping ==
  /\ gameState = "LEVEL_INTRO"
  /\ introCharIndex < MaxIntro
  /\ introCharIndex' = introCharIndex + 1
  /\ sent' = <<>>
  /\ UNCHANGED gameState
  /\ UNCHANGED loopVars
  /\ UNCHANGED << currentLevelIndex, lobbyScreen, input, canvas, connected,
                  handlersSet, pending, hookResult, disk, response >>

\* ------------------------------------------------------ the lobby hooks
RoomCodes == { "ABCD", "WXYZ" }
CreateRoom == [type |-> "create_room"]
JoinRoom(code) == [type |-> "join_room", roomCode |-> code]
ReadyMsg == [type |-> "ready"]

\* A call suspended at "await networkManager.connect()".
HostCall == [kind |-> "hostGame", roomCode |-> NULL, startedAt |-> frameNo]
JoinCall(code) ==
  [kind |-> "joinGame", roomCode |-> Some(code), startedAt |-> frameNo]

\* Lines 42 and 50: the message the call sends once it runs on.
Message(call) ==
  IF call.kind = "hostGame" THEN CreateRoom ELSE JoinRoom(Val(call.roomCode))

\* Mutant of NeedsConnect: hostGame tests the connection as joinGame does.
NeedsConnectBothTest(kind, live) == ~live

\* Lines 40 and 46-47: whether the call awaits networkManager.connect().
\* hostGame does so without testing the connection.
NeedsConnect(kind, live) == IF kind = "hostGame" THEN TRUE ELSE ~live

\* Lines 38-43 and 44-51 up to the first await: the state is set to LOBBY;
\* the call either suspends on the handshake or, for joinGame on a live
\* connection, sends and returns at once.
LobbyCall(call) ==
  /\ gameState' = "LOBBY"
  /\ IF NeedsConnect(call.kind, connected)
     THEN /\ Len(pending) < MaxCalls
          /\ pending' = Append(pending, call)
          /\ sent' = <<>>
          /\ UNCHANGED hookResult
     ELSE /\ pending' = pending
          /\ sent' = << Message(call) >>
          /\ hookResult' = [hook |-> call.kind, threw |-> FALSE,
                                  value |-> Some(call)]
  /\ UNCHANGED loopVars
  /\ UNCHANGED << currentLevelIndex, introCharIndex, lobbyScreen, input, canvas,
                  connected, handlersSet, disk, response >>

HostGame == LobbyCall(HostCall)
JoinGame(code) == LobbyCall(JoinCall(code))

\* Mutant of HandshakeResolve: the connection comes up but the suspended
\* call is dropped instead of run on.
HandshakeDropsCall(i) ==
  /\ i \in 1 .. Len(pending)
  /\ connected' = TRUE
  /\ sent' = <<>>
  /\ pending' = SubSeq(pending, 1, i - 1) \o SubSeq(pending, i + 1, Len(pending))
  /\ UNCHANGED << gameState, handlersSet, hookResult >>
  /\ UNCHANGED loopVars
  /\ UNCHANGED << currentLevelIndex, introCharIndex, lobbyScreen, input, canvas,
                  disk, response >>

\* Lines 41-42 and 48-50: the handshake of the i-th suspended call resolves
\* and the call runs on to its end: handlers, send, return.
HandshakeResolve(i) ==
  /\ i \in 1 .. Len(pending)
  /\ connected' = TRUE
  /\ handlersSet' = TRUE
  /\ sent' = << Message(pending[i]) >>
  /\ pending' = SubSeq(pending, 1, i - 1) \o SubSeq(pending, i + 1, Len(pending))
  /\ hookResult' = [hook |-> pending[i].kind, threw |-> FALSE,
                          value |-> Some(pending[i])]
  /\ UNCHANGED gameState
  /\ UNCHANGED loopVars
  /\ UNCHANGED << currentLevelIndex, introCharIndex, lobbyScreen, input, canvas,
                  disk, response >>

\* The socket closes: networkManager.isConnected() turns false.
ConnectionLost ==
  /\ connected
  /\ connected' = FALSE
  /\ sent' = <<>>
  /\ UNCHANGED gameState
  /\ UNCHANGED loopVars
  /\ UNCHANGED << currentLevelIndex, introCharIndex, lobbyScreen, input, canvas,
                  handlersSet, pending, hookResult, disk, response >>

\* Line 52.
Ready ==
  /\ sent' = << ReadyMsg >>
  /\ UNCHANGED gameState
  /\ UNCHANGED loopVars
  /\ UNCHANGED hookVars

\* ------------------------------------------------------ the read accessors
\* An accessor call ends in a return value or in a raised TypeError.
Returned(v) == [threw |-> FALSE, value |-> Some(v)]
Raised == [threw |-> TRUE, value |-> NULL]
NoCall == [hook |-> "none", threw |-> FALSE, value |-> NULL]

\* Line 53: lobbyScreen ? lobbyScreen.state : null.
GetLobbyState ==
  Returned(IF lobbyScreen # NULL THEN Some(Val(lobbyScreen).state) ELSE NULL)

\* Line 54: lobbyScreen ? lobbyScreen.roomCode : null.
GetRoomCode ==
  Returned(IF lobbyScreen # NULL THEN Some(Val(lobbyScreen).roomCode) ELSE NULL)

\* Line 55: input.isPointerLocked(), the receiver is not tested.
IsPointerLocked ==
  IF input = NULL THEN Raised ELSE Returned(Val(input).pointerLocked)

\* Line 57: getElementById('game-canvas').toDataURL(...), the element is not
\* tested; getElementById answers null for an element that is not there.
GetCanvasData ==
  IF canvas = NULL THEN Raised ELSE Returned(Val(canvas))

\* Lines 219-240: _getMpStatus().  The tier, winner, id and match-time
\* fields are read under the same "mpState ?" test as rp and cannot raise;
\* they are left out.  rp.pos.x is read under "rp ?" alone.
GetMpStatus ==
  LET rp == IF mpState # NULL THEN Val(mpState).remotePlayer ELSE NULL
  IN  IF rp # NULL /\ Val(rp).pos = NULL
      THEN Raised
      ELSE Returned(
        [gameState |-> gameState,
         playerAlive |-> IF player # NULL THEN Val(player).alive ELSE FALSE,
         playerHP |-> IF player # NULL THEN Val(player).health ELSE 0,
         playerX |-> IF player # NULL THEN Val(player).pos.x ELSE 0,
         playerY |-> IF player # NULL THEN Val(player).pos.y ELSE 0,
         playerAngle |-> IF player # NULL THEN Val(player).angle ELSE 0,
         remoteAlive |-> IF rp # NULL THEN Val(rp).alive ELSE FALSE,
         remoteX |-> IF rp # NULL THEN Val(Val(rp).pos).x ELSE 0,
         remoteY |-> IF rp # NULL THEN Val(Val(rp).pos).y ELSE 0,
         autoP1Active |-> autoP1Active,
         autoP1Tick |-> autoP1Tick,
         loopError |-> IF loopError # NULL THEN loopError ELSE NULL])

\* The six read accessors by name.
Accessors ==
  [getState |-> Returned(GetState),
   getLobbyState |-> GetLobbyState,
   getRoomCode |-> GetRoomCode,
   isPointerLocked |-> IsPointerLocked,
   getCanvasData |-> GetCanvasData,
   getMpStatus |-> GetMpStatus]

\* A call of the accessor named h: nothing but the caller's result changes.
CallAccessor(h) ==
  /\ hookResult' = [hook |-> h, threw |-> Accessors[h].threw,
                                value |-> Accessors[h].value]
  /\ UNCHANGED << gameState, player, mpMap, mpState, autoP1Active, autoP1Tick,
                  loopError, rafPending, frameNo, thrown, frameResult, mpPath,
                  navTarget, sent, currentLevelIndex, introCharIndex,
                  lobbyScreen, input, canvas, connected, handlersSet, pending,
                  disk, response >>

\* ------------------------------------------------------------- the game
\* What the agent reads is the game's: the match the server starts from the
\* lobby, and the alive flags its snapshots carry.
PlayerAt(x, y, a) ==
  [alive |-> TRUE, health |-> 100, pos |-> [x |-> x * PosScale, y |-> y * PosScale],
   angle |-> a]
RemoteAt(alive, x, y) ==
  [alive |-> alive, pos |-> Some([x |-> x * PosScale, y |-> y * PosScale])]

\* The matches the agent is checked on.
StartPlayers ==
  { NULL,
    Some(PlayerAt(16, 10, 0)),              \* open area, facing east
    Some(PlayerAt(3, 2, Pi)),               \* corridor, an exact multiple of pi
    Some(PlayerAt(8, 10, 5 * Pi + 40)),     \* on the open area's edge, drifted
    Some(PlayerAt(16, 10, -(Pi \div 2))) }  \* open area, facing north
RemoteSnapshots ==
  { NULL,
    Some(RemoteAt(TRUE, 20, 10)),           \* near
    Some(RemoteAt(TRUE, 1, 2)),             \* in the corridor
    Some(RemoteAt(TRUE, 30, 30)),           \* beyond the fire range of most
    Some([alive |-> TRUE, pos |-> NULL]) }  \* alive, position not yet known
DtSet == {16, 33}

\* The matches the supervisor is checked on.
LoopPlayers == { NULL, Some(PlayerAt(16, 10, 0)) }
LoopRemotes == { Some(RemoteAt(TRUE, 20, 10)), Some([alive |-> TRUE, pos |-> NULL]) }
LoopDtSet == {16}

\* The server starts the match: the game enters MP_PLAYING with its
\* multiplayer state built (one match per page load).
MatchStart(p, rp, map) ==
  /\ gameState = "LOBBY"
  /\ mpState = NULL
  /\ gameState' = "MP_PLAYING"
  /\ player' = p
  /\ mpState' = Some([remotePlayer |-> rp])
  /\ mpMap' = map
  /\ sent' = <<>>
  /\ UNCHANGED << autoP1Active, autoP1Tick, loopError, rafPending, frameNo,
                  thrown, frameResult, mpPath, navTarget >>
  /\ UNCHANGED hookVars

\* A server snapshot kills or respawns the remote player.
RemoteAliveChange ==
  /\ mpState # NULL
  /\ Val(mpState).remotePlayer # NULL
  /\ mpState' = Some([remotePlayer |->
        Some([Val(Val(mpState).remotePlayer) EXCEPT !.alive = ~@])])
  /\ sent' = <<>>
  /\ UNCHANGED << gameState, player, mpMap, autoP1Active, autoP1Tick, loopError,
                  rafPending, frameNo, thrown, frameResult, mpPath, navTarget >>
  /\ UNCHANGED hookVars

\* A server snapshot kills or respawns the local player.
LocalAliveChange ==
  /\ player # NULL
  /\ player' = Some([Val(player) EXCEPT !.alive = ~@,
                                        !.health = IF @ = 0 THEN 100 ELSE 0])
  /\ sent' = <<>>
  /\ UNCHANGED << gameState, mpMap, mpState, autoP1Active, autoP1Tick, loopError,
                  rafPending, frameNo, thrown, frameResult, mpPath, navTarget >>
  /\ UNCHANGED hookVars

\* ------------------------------------------------------- the file server
\* What the handler writes to the socket, in the order it writes it.
Event(op, code, name, value, bytes) ==
  [op |-> op, code |-> code, name |-> name, value |-> value, bytes |-> bytes]
SendResponse(code) == << Event("status", code, "", "", <<>>) >>
SendHeader(name, value) == << Event("header", 0, name, value, <<>>) >>
EndHeaders == << Event("end_headers", 0, "", "", <<>>) >>
Write(bytes) == << Event("body", 0, "", "", bytes) >>

\* No request served yet.
NoResponse == [path |-> "", wire |-> <<>>]

\* Lines 21-241: the bundle, as bytes (it starts with a line feed).
TestHooks == << 10, 10, 47 >>
\* The bytes a submission's files are made of.
Bytes == { 10, 47 }
EntryPath == "/src/main.js"
\* The paths requested: the entry script, the entry script with a query,
\* a page that is there and a script that is not.
Paths == { EntryPath, "/src/main.js?v=1", "/index.html", "/src/none.js" }
IndexHtml == << 47 >>

\* Line 263: self.send_error(404), the standard library's error reply.
SendError(code) ==
  SendResponse(code) \o SendHeader("Content-Type", "text/html;charset=utf-8")
    \o SendHeader("Connection", "close") \o EndHeaders \o Write(<< >>)

\* Line 265: super().do_GET(), the standard library's static file server
\* over the submission directory: the query is dropped, the file is sent
\* as it is on disk or the reply is 404.
StaticFile(path, file) ==
  IF path \in { EntryPath, "/src/main.js?v=1" } THEN file
  ELSE IF path = "/index.html" THEN Some(IndexHtml)
  ELSE NULL
StaticType(path) == IF path = "/index.html" THEN "text/html" ELSE "text/javascript"
StaticServe(path, file) ==
  LET f == StaticFile(path, file)
  IN  IF f = NULL THEN SendError(404)
      ELSE SendResponse(200) \o SendHeader("Content-type", StaticType(path))
             \o SendHeader("Content-Length", ToString(Len(Val(f))))
             \o EndHeaders \o Write(Val(f))

\* Mutant of Inject: the bundle is put before the file.
InjectPrepends(content) == TestHooks \o content

\* Line 255: content += TEST_HOOKS.
Inject(content) == content \o TestHooks

\* Mutant of EntryResponse: the success status is written before the file
\* is opened.
EntryResponseStatusFirst(file) ==
  IF file = NULL
  THEN SendResponse(200) \o SendError(404)
  ELSE LET content == Inject(Val(file))
       IN  SendResponse(200)
             \o SendHeader("Content-Type", "application/javascript")
             \o SendHeader("Content-Length", ToString(Len(content)))
             \o SendHeader("Access-Control-Allow-Origin", "*")
             \o EndHeaders \o Write(content)

\* Lines 250-263: the entry script is read and sent with the bundle, or the
\* open fails with FileNotFoundError before anything is written.
EntryResponse(file) ==
  IF file = NULL
  THEN SendError(404)
  ELSE LET content == Inject(Val(file))
       IN  SendResponse(200)
             \o SendHeader("Content-Type", "application/javascript")
             \o SendHeader("Content-Length", ToString(Len(content)))
             \o SendHeader("Access-Control-Allow-Origin", "*")
             \o EndHeaders \o Write(content)

\* Lines 248-265: do_GET.
DoGet(path) ==
  /\ response' = [path |-> path,
                  wire |-> IF path = EntryPath THEN EntryResponse(disk)
                           ELSE StaticServe(path, disk)]
  /\ UNCHANGED << gameState, sent >>
  /\ UNCHANGED loopVars
  /\ UNCHANGED << currentLevelIndex, introCharIndex, lobbyScreen, input, canvas,
                  connected, handlersSet, pending, hookResult, disk >>

\* The submission's entry script is written, a byte at a time, or removed.
FileAppend(b) ==
  /\ Len(IF disk = NULL THEN <<>> ELSE Val(disk)) < MaxFileLen
  /\ disk' = Some((IF disk = NULL THEN <<>> ELSE Val(disk)) \o << b >>)
  /\ UNCHANGED << gameState, sent >>
  /\ UNCHANGED loopVars
  /\ UNCHANGED << currentLevelIndex, introCharIndex, lobbyScreen, input, canvas,
                  connected, handlersSet, pending, hookResult, response >>
FileCreate ==
  /\ disk = NULL
  /\ disk' = Some(<< >>)
  /\ UNCHANGED << gameState, sent >>
  /\ UNCHANGED loopVars
  /\ UNCHANGED << currentLevelIndex, introCharIndex, lobbyScreen, input, canvas,
                  connected, handlersSet, pending, hookResult, response >>
FileRemove ==
  /\ disk # NULL
  /\ disk' = NULL
  /\ UNCHANGED << gameState, sent >>
  /\ UNCHANGED loopVars
  /\ UNCHANGED << currentLevelIndex, introCharIndex, lobbyScreen, input, canvas,
                  connected, handlersSet, pending, hookResult, response >>

\* ------------------------------------------------------ the specification
Init ==
  /\ gameState = "LEVEL_INTRO"
  /\ player = NULL
  /\ mpMap = FALSE
  /\ mpState = NULL
  /\ autoP1Active = FALSE
  /\ autoP1Tick = 0
  /\ loopError = NULL
  /\ rafPending = 1
  /\ frameNo = 0
  /\ thrown = NoThrow
  /\ frameResult = "none"
  /\ mpPath = "none"
  /\ navTarget = NULL
  /\ sent = <<>>
  /\ currentLevelIndex = 0
  /\ introCharIndex = 0
  /\ lobbyScreen = NULL
  /\ input = Some([pointerLocked |-> FALSE])
  /\ canvas = Some("image/png")
  /\ connected = FALSE
  /\ handlersSet = FALSE
  /\ pending = <<>>
  /\ hookResult = NoCall
  /\ disk = NULL
  /\ response = NoResponse

Frame(dts, faults) ==
  \E dt \in dts, fault \in faults \cup {NoThrow}, callsMp \in BOOLEAN :
    GameLoop(dt, fault, callsMp)

Match(players, remotes, maps) ==
  \E p \in players, rp \in remotes, map \in maps : MatchStart(p, rp, map)

\* The supervisor and the hooks, under every kind of thrown value, on the
\* matches of LoopPlayers and LoopRemotes.
Next ==
  \/ Frame(LoopDtSet, Faults)
  \/ StartAutoP1
  \/ StopAutoP1
  \/ SkipToPlaying
  \/ GoToLobby
  \/ RestartLoop
  \/ Match(LoopPlayers, LoopRemotes, {TRUE})

Spec == Init /\ [][Next]_vars

\* The agent, on the matches of StartPlayers and RemoteSnapshots with the
\* server's snapshots arriving between frames; the only value thrown is the
\* agent's own TypeError.
AgentNext ==
  \/ Frame(DtSet, {})
  \/ StartAutoP1
  \/ StopAutoP1
  \/ SkipToPlaying
  \/ GoToLobby
  \/ Match(StartPlayers, RemoteSnapshots, BOOLEAN)
  \/ RemoteAliveChange
  \/ LocalAliveChange

AgentSpec == Init /\ [][AgentNext]_vars

\* The hooks that drive levels and the lobby, called one after another.
HookNext ==
  \/ \E idx \in LevelArgs : LoadLevel(idx)
  \/ IntroTyping
  \/ SkipToPlaying
  \/ GoToLobby
  \/ HostGame
  \/ \E code \in RoomCodes : JoinGame(code)
  \/ \E i \in 1 .. MaxCalls : HandshakeResolve(i)
  \/ ConnectionLost
  \/ Ready

HookSpec == Init /\ [][HookNext]_vars

\* The lobby hooks with the frame loop running.
LobbyNext ==
  \/ Frame(LoopDtSet, {})
  \/ SkipToPlaying
  \/ GoToLobby
  \/ HostGame
  \/ \E code \in RoomCodes : JoinGame(code)
  \/ \E i \in 1 .. MaxCalls : HandshakeResolve(i)
  \/ ConnectionLost

LobbySpec == Init /\ [][LobbyNext]_vars

\* The file server and the submission directory.
HttpNext ==
  \/ \E path \in Paths : DoGet(path)
  \/ \E b \in Bytes : FileAppend(b)
  \/ FileCreate
  \/ FileRemove

HttpSpec == Init /\ [][HttpNext]_vars

\* ---------------------------------------------- the accessors' specification
\* The page as an accessor may find it: each object it reads there or not.
LobbyScreens == { NULL, Some([state |-> "waiting", roomCode |-> "ABCD"]) }
InputManagers == { NULL, Some([pointerLocked |-> FALSE]) }
Canvases == { NULL, Some("image/png") }
MpStates ==
  { NULL, Some([remotePlayer |-> NULL]) }
    \cup { Some([remotePlayer |-> rp]) : rp \in LoopRemotes }

AccessorInit ==
  /\ gameState = "LEVEL_INTRO"
  /\ player \in LoopPlayers
  /\ mpMap = FALSE
  /\ mpState \in MpStates
  /\ autoP1Active = FALSE
  /\ autoP1Tick = 0
  /\ loopError = NULL
  /\ rafPending = 1
  /\ frameNo = 0
  /\ thrown = NoThrow
  /\ frameResult = "none"
  /\ mpPath = "none"
  /\ navTarget = NULL
  /\ sent = <<>>
  /\ currentLevelIndex = 0
  /\ introCharIndex = 0
  /\ lobbyScreen \in LobbyScreens
  /\ input \in InputManagers
  /\ canvas \in Canvases
  /\ connected = FALSE
  /\ handlersSet = FALSE
  /\ pending = <<>>
  /\ hookResult = NoCall
  /\ disk = NULL
  /\ response = NoResponse

AccessorNext == \E h \in DOMAIN Accessors : CallAccessor(h)

AccessorSpec == AccessorInit /\ [][AccessorNext]_vars

\* ================================================================ claims
\* A step that is one call of gameLoop by the frame scheduler.
FrameStep == frameNo' = frameNo + 1
Waypoint == [x |-> NavX * PosScale, y |-> NavY * PosScale]

\* C1: for every frame in which the original loop throws, whatever the value
\* thrown, the wrapper returns normally: no exception crosses it to the
\* frame scheduler.
C1_NoExceptionEscapes == frameResult # "escaped"

\* C2: after every frame in which the original loop throws, gameLoop is
\* scheduled again for the next frame.
C2_RescheduledAfterThrow ==
  (frameResult # "none" /\ thrown # NoThrow) => rafPending >= 1

\* C3: after a frame whose original loop throws e, getState().loopError is
\* non-null and holds e's message and stack: every frame error is recorded.
C3_EveryErrorRecorded ==
  (frameResult # "none" /\ thrown # NoThrow) =>
     /\ GetState.loopError # NULL
     /\ thrown.kind = "Error" =>
          GetState.loopError = Some(<<thrown.message, " | ", thrown.stack>>)

\* C4 as stated: after every active agent frame player.angle is in (-pi, pi].
C4_AngleInHalfOpenRange ==
  (mpPath = "agent" /\ player # NULL) =>
     (-Pi < Val(player).angle /\ Val(player).angle <= Pi)

\* C4, amended: after every active agent frame player.angle is in
\* [-pi - 0.9, pi + 0.9): normalized into [-pi, pi) at the start of the
\* frame, then changed by the aim update of at most 300 * 0.003 rad; it is
\* in [-pi, pi) when no map is loaded or the frame threw.
C4_AngleBounded ==
  (mpPath = "agent" /\ player # NULL) =>
     /\ -Pi - MaxMouseDX <= Val(player).angle
     /\ Val(player).angle < Pi + MaxMouseDX
     /\ (~mpMap \/ thrown # NoThrow) =>
          (-Pi <= Val(player).angle /\ Val(player).angle < Pi)

\* C4 witness: after two agent frames in a row the aim update has carried
\* the stored angle below -pi.
C4_Witness ==
  /\ mpPath = "agent"
  /\ autoP1Tick >= 2
  /\ player # NULL
  /\ Val(player).angle < -Pi

\* The absolute angular distance between two directions, in 0 .. Pi.
AngDist(a, b) ==
  LET d == (a - b) % TwoPi
  IN  IF d > Pi THEN TwoPi - d ELSE d

\* Whether the opponent snapshot rp is alive, known and within the fire
\* cone and range of a player at (x, y) facing `angle`.
InFireCone(x, y, angle, rp) ==
  /\ rp # NULL
  /\ Val(rp).alive
  /\ Val(rp).pos # NULL
  /\ LET rx == Val(Val(rp).pos).x
         ry == Val(Val(rp).pos).y
     IN  /\ AngDist(Atan2(ry - y, rx - x), angle) < FireAngle
         /\ (rx - x) * (rx - x) + (ry - y) * (ry - y)
              < (FireRange * PosScale) * (FireRange * PosScale)

\* C5: in every active agent frame the input sent has fire = TRUE exactly
\* when the opponent exists, is alive, and is within 0.44 rad of the
\* player's facing and within distance 20; never when it is absent or dead.
C5_FireGate ==
  [][(FrameStep /\ mpPath' = "agent" /\ sent' # <<>>) =>
       /\ Len(sent') = 1
       /\ sent'[1].type = "input"
       /\ sent'[1].fire =
            InFireCone(Val(player).pos.x, Val(player).pos.y, Val(player).angle,
                       Val(mpState).remotePlayer)
       /\ (Val(mpState).remotePlayer = NULL
             \/ ~Val(Val(mpState).remotePlayer).alive) => ~sent'[1].fire]_vars

\* C5 witness: the agent fires in the navigation phase (its target is the
\* waypoint, the opponent is in its fire cone).
C5_Witness ==
  /\ mpPath = "agent"
  /\ sent # <<>>
  /\ sent[1].fire
  /\ navTarget = Some(Waypoint)

\* C6 as stated: tick increases by exactly 1 on every frame executed while
\* the agent is active.
C6_TickEveryActiveFrame ==
  [][(FrameStep /\ autoP1Active) => autoP1Tick' = autoP1Tick + 1]_vars

\* C6, amended: active changes only through _startAutoP1/_stopAutoP1; tick
\* is 0 right after start, increases by exactly 1 on every frame in which
\* updateMultiplayer runs while the agent is active, the game state is
\* MP_PLAYING and the local player exists and is alive, and is unchanged by
\* every other frame and every other operation.
C6_TickLifecycle ==
  [][/\ autoP1Active' # autoP1Active => (StartAutoP1 \/ StopAutoP1)
     /\ StartAutoP1 => (autoP1Active' /\ autoP1Tick' = 0)
     /\ FrameStep =>
          autoP1Tick' =
            IF /\ mpPath' # "none"
               /\ autoP1Active
               /\ gameState = "MP_PLAYING"
               /\ player # NULL
               /\ Val(player).alive
            THEN autoP1Tick + 1
            ELSE autoP1Tick
     /\ (~FrameStep /\ ~StartAutoP1) => autoP1Tick' = autoP1Tick]_vars

\* C6 witness: start followed by N agent frames and nothing else: tick = N.
C6_Witness ==
  /\ autoP1Active
  /\ autoP1Tick >= 2
  /\ autoP1Tick = frameNo

\* C7 as stated: start sets active and resets tick, stop clears active and
\* resets tick.
C7_StopResetsTick ==
  [][/\ StartAutoP1 => (autoP1Active' /\ autoP1Tick' = 0)
     /\ StopAutoP1 => (~autoP1Active' /\ autoP1Tick' = 0)]_vars

\* C7, amended: _startAutoP1 sets active to TRUE and tick to 0, _stopAutoP1
\* sets active to FALSE and leaves tick as it is, and each is idempotent:
\* applied twice it leaves what one application leaves.
C7_StartStopIdempotent ==
  [][LET after == [active |-> autoP1Active', tick |-> autoP1Tick']
     IN  /\ StartAutoP1 =>
               /\ after = [active |-> TRUE, tick |-> 0]
               /\ StartEffect(after) = after
         /\ StopAutoP1 =>
               /\ after = [active |-> FALSE, tick |-> autoP1Tick]
               /\ StopEffect(after) = after]_vars

\* C7 witness: the agent was stopped after it ran, and the tick it had
\* reached is still there.
C7_Witness == ~autoP1Active /\ autoP1Tick >= 2

\* C8: after _stopAutoP1 every frame until a new start produces no
\* synthetic input and changes no agent state, updateMultiplayer takes the
\* original path; the stop itself changes nothing but the active flag.
C8_StopAtFrameBoundary ==
  [][/\ (FrameStep /\ ~autoP1Active) =>
          /\ sent' = <<>>
          /\ mpPath' \in {"orig", "none"}
          /\ navTarget' = NULL
          /\ autoP1Tick' = autoP1Tick
          /\ player' = player
     /\ StopAutoP1 =>
          /\ ~autoP1Active'
          /\ UNCHANGED << player, autoP1Tick, frameNo, mpPath, navTarget, gameState >>
          /\ sent' = <<>>]_vars

\* C8 witness: the agent had run, was stopped, and the frame after took the
\* original path although the match is on and the player alive.
C8_Witness ==
  /\ ~autoP1Active
  /\ autoP1Tick >= 1
  /\ mpPath = "orig"
  /\ gameState = "MP_PLAYING"
  /\ player # NULL
  /\ Val(player).alive

\* C9 as stated: no frame changes player.pos or player.health.
C9_NoDirectMutation ==
  [][(FrameStep /\ player # NULL) =>
       /\ player' # NULL
       /\ Val(player').pos = Val(player).pos
       /\ Val(player').health = Val(player).health]_vars

\* C9, amended: the agent never changes the player's health or alive flag;
\* it does change player.pos itself, as local prediction: in an agent frame
\* that sends its input while the map is loaded, pos moves by 3 * dt along
\* the normalized facing angle, and in every other frame pos is unchanged.
C9_PredictionOnly ==
  [][(FrameStep /\ player # NULL) =>
       /\ player' # NULL
       /\ Val(player').health = Val(player).health
       /\ Val(player').alive = Val(player).alive
       /\ Val(player').pos =
            IF mpPath' = "agent" /\ sent' # <<>> /\ mpMap
            THEN LET a == Normalize(Val(player).angle)
                     dt == sent'[1].dt
                 IN  [x |-> Val(player).pos.x
                              + (Cos(a) * MoveSpeed * dt * PosScale)
                                  \div (TrigScale * MsPerSecond),
                      y |-> Val(player).pos.y
                              + (Sin(a) * MoveSpeed * dt * PosScale)
                                  \div (TrigScale * MsPerSecond)]
            ELSE Val(player).pos]_vars

\* C9 witness: an agent frame has moved the player off every start position.
C9_Witness ==
  /\ mpPath = "agent"
  /\ mpMap
  /\ player # NULL
  /\ \A q \in StartPlayers \ {NULL} : Val(q).pos # Val(player).pos

\* Whether (x, y) is within one position unit of the circle of radius
\* WanderRadius around the wander centre.
OnWanderCircle(x, y) ==
  LET dx == x - WanderCentre * PosScale
      dy == y - WanderCentre * PosScale
      r == WanderRadius * PosScale
  IN  /\ dx * dx + dy * dy >= (r - 2) * (r - 2)
      /\ dx * dx + dy * dy <= (r + 2) * (r + 2)

\* C10: outside the open area (not (y > 6 and 8 < x < 24)) the target is the
\* waypoint (16, 12), never the opponent's position; inside it the target is
\* the opponent's position iff the opponent is alive with a known position,
\* and otherwise the wander point on the circle around (16, 16).
C10_TargetSelection ==
  [][(FrameStep /\ mpPath' = "agent") =>
       /\ navTarget' # NULL
       /\ LET x == Val(player).pos.x
              y == Val(player).pos.y
              rp == Val(mpState).remotePlayer
              known == rp # NULL /\ Val(rp).alive /\ Val(rp).pos # NULL
              t == Val(navTarget')
          IN  IF ~(y > 6 * PosScale /\ 8 * PosScale < x /\ x < 24 * PosScale)
              THEN t = Waypoint
              ELSE IF known THEN t = Val(Val(rp).pos)
              ELSE /\ t = WanderPoint(autoP1Tick')
                   /\ OnWanderCircle(t.x, t.y)]_vars

\* C10 witness: the agent, outside the open area with a live opponent two
\* tiles away, has targeted the waypoint.
C10_Witness ==
  /\ mpPath = "agent"
  /\ navTarget = Some(Waypoint)
  /\ mpState = Some([remotePlayer |-> Some(RemoteAt(TRUE, 1, 2))])
  /\ player # NULL
  /\ Val(player).pos.x < 4 * PosScale


\* C11: every read accessor (getState, getLobbyState, getRoomCode,
\* isPointerLocked, getCanvasData, _getMpStatus) returns and never raises,
\* whichever of player, mpState, remote player, remote position, lobby
\* screen, input manager and canvas is missing.
C11_AccessorsNeverRaise == ~hookResult.threw

\* C12: hostGame() and joinGame(roomCode) make a connection attempt exactly
\* when no live connection exists at call time; the message is sent only
\* once the handshake has resolved, one message per call.
C12_ConnectsExactlyWhenNeeded ==
  [][(HostGame \/ \E code \in RoomCodes : JoinGame(code)) =>
        /\ (Len(pending') = Len(pending) + 1) <=> ~connected
        /\ Len(pending') = Len(pending) + 1 => sent' = <<>>
        /\ Len(pending') = Len(pending) => Len(sent') = 1]_vars

\* What a reply says: its status line, the values of a header, its body.
StatusCodes(w) == { w[i].code : i \in { j \in DOMAIN w : w[j].op = "status" } }
HeaderValues(w, name) ==
  { w[i].value : i \in { j \in DOMAIN w : w[j].op = "header" /\ w[j].name = name } }
RECURSIVE BodyOf(_)
BodyOf(w) ==
  IF w = << >> THEN << >>
  ELSE (IF Head(w).op = "body" THEN Head(w).bytes ELSE << >>) \o BodyOf(Tail(w))

\* C13: a GET of /src/main.js whose file exists is answered 200 with the
\* file's bytes followed by the bundle (the file is an exact prefix, the
\* length is the sum, Content-Length says so, Content-Type is
\* application/javascript, Access-Control-Allow-Origin is *); a GET of any
\* other path is answered as the plain static server answers it.
C13_AppendOnly ==
  [][\A path \in Paths : DoGet(path) =>
       LET w == response'.wire
           body == BodyOf(w)
       IN  /\ (path = EntryPath /\ disk # NULL) =>
                /\ w[1].op = "status" /\ StatusCodes(w) = { 200 }
                /\ Len(body) = Len(Val(disk)) + Len(TestHooks)
                /\ SubSeq(body, 1, Len(Val(disk))) = Val(disk)
                /\ SubSeq(body, Len(Val(disk)) + 1, Len(body)) = TestHooks
                /\ HeaderValues(w, "Content-Length") = { ToString(Len(body)) }
                /\ HeaderValues(w, "Content-Type") = { "application/javascript" }
                /\ HeaderValues(w, "Access-Control-Allow-Origin") = { "*" }
           /\ path # EntryPath => w = StaticServe(path, disk)]_vars

\* C13 witness: the entry script, not empty, was served with the bundle.
C13_Witness ==
  /\ response.path = EntryPath
  /\ StatusCodes(response.wire) = { 200 }
  /\ Len(BodyOf(response.wire)) > Len(TestHooks)
  /\ disk # NULL

C15_LoadLevelThenGetState ==
  [][\A n \in ValidLevels : LoadLevel(n) =>
        /\ GetState'.currentLevelIndex = n
        /\ GetState'.gameState = "LEVEL_INTRO"
        /\ introCharIndex' = 0]_vars

\* C15 witness: another level was loaded while the game was playing, its
\* introduction typed.
C15_Witness ==
  /\ hookResult.hook = "loadLevel"
  /\ Val(hookResult.value).idx \in ValidLevels
  /\ Val(hookResult.value).before.gameState = "PLAYING"
  /\ Val(hookResult.value).before.introCharIndex > 0
  /\ Val(hookResult.value).before.currentLevelIndex # Val(hookResult.value).idx
  /\ GetState.currentLevelIndex = Val(hookResult.value).idx
  /\ GetState.gameState = "LEVEL_INTRO"

\* C19: loadLevel(index) with an index that is no level raises no error and
\* leaves gameState, currentLevelIndex and the introduction progress as
\* they were.
C19_InvalidIndexNoEffect ==
  [][\A idx \in LevelArgs \ ValidLevels : LoadLevel(idx) =>
        /\ ~hookResult'.threw
        /\ UNCHANGED << gameState, currentLevelIndex, introCharIndex >>]_vars

\* C16: every call of the patched updateMultiplayer(dt) takes exactly one
\* path: the agent path exactly when the agent is active, the game is in
\* MP_PLAYING and the player exists and is alive, and it then sends exactly
\* one input message; otherwise the original runs, nothing is sent, the
\* agent state is untouched and no error is raised.
C16_OnePathPerFrame ==
  [][(FrameStep /\ mpPath' # "none") =>
        /\ mpPath' \in { "agent", "orig" }
        /\ mpPath' = "agent" <=> AgentGuard
        /\ mpPath' = "agent" =>
             /\ Len(sent') = 1
             /\ sent'[1].type = "input"
        /\ mpPath' = "orig" =>
             /\ sent' = <<>>
             /\ autoP1Tick' = autoP1Tick
             /\ autoP1Active' = autoP1Active
             /\ thrown' = NoThrow]_vars

\* The opponent of the frame: marked alive, its position not known.
OpponentUnlocated ==
  /\ mpState # NULL
  /\ Val(mpState).remotePlayer # NULL
  /\ Val(Val(mpState).remotePlayer).alive
  /\ Val(Val(mpState).remotePlayer).pos = NULL

\* C17: in an agent frame whose opponent is marked alive but has no known
\* position, the frame completes without raising, the target is not the
\* opponent, and the input sent has fire = false.
C17_UnlocatedOpponentNoFire ==
  [][(FrameStep /\ mpPath' = "agent" /\ OpponentUnlocated) =>
        /\ thrown' = NoThrow
        /\ navTarget' # NULL
        /\ \/ Val(navTarget') = Waypoint
           \/ OnWanderCircle(Val(navTarget').x, Val(navTarget').y)
        /\ Len(sent') = 1
        /\ sent'[1].fire = FALSE]_vars

\* The sequence q without its i-th element.
Without(q, i) == SubSeq(q, 1, i - 1) \o SubSeq(q, i + 1, Len(q))

\* C18: a suspended hostGame()/joinGame() does not block the frame loop:
\* while calls are suspended a scheduled frame and the other hooks can still
\* run and leave the suspended calls as they are, the handshake of each
\* suspended call can still resolve, and when it does that call runs on
\* and sends its own message.
C18_SuspendedCallsDoNotBlock ==
  /\ [](pending # <<>> =>
          /\ (rafPending > 0 /\ frameNo < MaxFrames) => ENABLED Frame(LoopDtSet, {})
          /\ ENABLED SkipToPlaying
          /\ ENABLED GoToLobby
          /\ \A i \in 1 .. Len(pending) : ENABLED HandshakeResolve(i))
  /\ [][/\ (FrameStep \/ SkipToPlaying \/ GoToLobby) => pending' = pending
        /\ Len(pending') < Len(pending) =>
             \E i \in 1 .. Len(pending) :
               /\ pending' = Without(pending, i)
               /\ hookResult' = [hook |-> pending[i].kind, threw |-> FALSE,
                                       value |-> Some(pending[i])]
               /\ pending[i].kind = "hostGame" => sent' = << CreateRoom >>
               /\ pending[i].kind = "joinGame" =>
                    sent' = << JoinRoom(Val(pending[i].roomCode)) >>]_vars

\* C18 witness: a call was suspended, a frame ran and skipToPlaying() was
\* called meanwhile, and the call then ran on and sent its message.
C18_Witness ==
  /\ hookResult.hook \in { "hostGame", "joinGame" }
  /\ Val(hookResult.value).startedAt < frameNo
  /\ gameState = "PLAYING"
  /\ sent = << Message(Val(hookResult.value)) >>

\* C20: the error slot is sticky.  Once a frame error is recorded,
\* window._loopError stays non-null through every later frame, hook call
\* and agent start/stop, and so does what getState() and _getMpStatus()
\* report of it; it changes only when a frame's error overwrites it with
\* that error's message and stack.
C20_ErrorSlotSticky ==
  [][loopError # NULL =>
        /\ loopError' # NULL
        /\ GetState'.loopError = loopError'
        /\ ~GetMpStatus'.threw => Val(GetMpStatus'.value).loopError = loopError'
        /\ loopError' # loopError =>
             /\ FrameStep
             /\ thrown' \notin { NoThrow }
             /\ loopError' = Some(<< MessageText(thrown'), " | ", StackText(thrown') >>)]_vars

\* C20 witness: an error is on record after a later frame that threw
\* nothing, with the agent started and the game sent to the lobby.
C20_Witness ==
  /\ loopError # NULL
  /\ frameNo >= 2
  /\ thrown = NoThrow
  /\ frameResult = "returned"
  /\ autoP1Active
  /\ gameState = "LOBBY"
  /\ GetState.loopError = loopError


====
